---- MODULE Spec2Model ----
(***************************************************************************)
(* The Docker Hub client of version-checker, pkg/client/docker/docker.go:  *)
(* New (construction, optional login), Client.IsClient, Client.Tags (the   *)
(* pagination loop), Client.doRequest (one tag-listing GET) and            *)
(* basicAuthSetup (the login POST), with the registry and the login        *)
(* endpoint as the environment.                                            *)
(*                                                                         *)
(* Strings that the code only compares or copies are TLA+ strings.  An     *)
(* image reference is the sequence of its '/'-separated segments, so       *)
(* "docker.io/nginx" is <<"docker.io", "nginx">>.  A URL is a record of    *)
(* its scheme and its location (host and path).                            *)
(***************************************************************************)
EXTENDS Integers, Sequences, FiniteSets, TLC

VARIABLES
    opts,       \* the Options handed to New
    loginResp,  \* what the login endpoint answers to a POST
    registry,   \* what the registry answers to a GET, per location
    newPc,      \* New: "start", "login" (POST in flight), "ready", "failed"
    client,     \* the *Client New returned (NilClient until then, and on failure)
    newErr,     \* the error New returned ("" is nil)
    loginLog,   \* the requests basicAuthSetup handed to the transport
    newCtx,     \* the ctx handed to New: "no", or "yes" (cancelled)
    owns,       \* what IsClient last returned, until the caller goes on to Tags
    pc,         \* per Tags call: "off", "idle", "request", "inflight", "process", "done"
    ref,        \* per call: the imageURL argument
    url,        \* per call: the local variable url
    tags,       \* per call: the local variable tags
    page,       \* per call: the *TagResponse doRequest returned
    ret,        \* per call: what Tags returned, [tags, err]
    cancelled,  \* per call: its ctx; "no", "yes" (cancelled), or "inflight":
                \* cancelled while the call's current request was in flight
    reqs        \* per call: the first MaxRequests requests handed to the transport

vars == <<opts, loginResp, registry, newPc, client, newErr, loginLog, newCtx, owns,
          pc, ref, url, tags, page, ret, cancelled, reqs>>

newVars == <<opts, loginResp, newPc, client, newErr, loginLog, newCtx>>
callVars == <<pc, ref, url, tags, page, ret, cancelled, reqs>>

(***************************************************************************)
(* Bounds of the model.                                                    *)
(***************************************************************************)
\* the transport double records the first MaxRequests requests of a call
MaxRequests == 4
\* a call stops accumulating (the model stops following it) past MaxTags tags
MaxTags == 6

Calls == {1, 2}

(***************************************************************************)
(* Program constants.                                                      *)
(***************************************************************************)
\* "docker.io/": the segment docker.io followed by a separator
imagePrefix == "docker.io"
\* "registry.hub.docker.com/"
imagePrefixHub == "registry.hub.docker.com"
\* http.StatusOK
StatusOK == 200

\* repoURL with %s replaced by the repository path
repoURL(path) ==
    [scheme |-> "https",
     loc |-> <<"registry.hub.docker.com", "v2", "repositories">> \o path \o <<"tags">>]

\* the empty string as a URL
NoURL == [scheme |-> "", loc |-> <<>>]
\* a string url.Parse rejects
BadURL == [scheme |-> "%", loc |-> <<>>]

(***************************************************************************)
(* Strings on segment sequences.                                           *)
(***************************************************************************)
\* strings.HasPrefix(s, prefix + "/")
HasPrefix(s, prefix) == Len(s) >= 2 /\ s[1] = prefix

\* strings.TrimPrefix(s, prefix + "/")
TrimPrefix(s, prefix) == IF HasPrefix(s, prefix) THEN Tail(s) ELSE s

\* strings.HasPrefix(imageURL, imagePrefix) || strings.HasPrefix(imageURL, imagePrefixHub)
IsClientDockerOnly(imageURL) == HasPrefix(imageURL, imagePrefix)
IsClient(imageURL) == HasPrefix(imageURL, imagePrefix) \/ HasPrefix(imageURL, imagePrefixHub)

\* the normalisation at the head of Tags
ImagePath(imageURL) ==
    LET a == IF HasPrefix(imageURL, imagePrefix)
             THEN TrimPrefix(imageURL, imagePrefix) ELSE imageURL
        b == IF HasPrefix(a, imagePrefixHub)
             THEN TrimPrefix(a, imagePrefixHub) ELSE a
    IN  IF Len(b) = 1 THEN <<"library">> \o b ELSE b

\* url := fmt.Sprintf(repoURL, imageURL)
FirstURLOwnedOnly(imageURL) ==
    IF IsClient(imageURL) THEN repoURL(ImagePath(imageURL)) ELSE NoURL
FirstURL(imageURL) == repoURL(ImagePath(imageURL))

(***************************************************************************)
(* time.Parse(time.RFC3339Nano, s): the instant in milliseconds since      *)
(* 2023-01-01T00:00:00Z, for the timestamps the registry of this model     *)
(* serves.                                                                 *)
(***************************************************************************)
ParseRFC3339Nano(s) ==
    CASE s = "2023-01-01T00:00:00Z" -> [ok |-> TRUE, t |-> 0]
      [] s = "2023-01-01T02:00:00.5+02:00" -> [ok |-> TRUE, t |-> 500]
      [] s = "2023-01-02T00:00:00.000000001Z" -> [ok |-> TRUE, t |-> 86400000]
      [] OTHER -> [ok |-> FALSE, t |-> 0]

\* the error of c.Do under a cancelled context, as doRequest wraps it
CtxErr == "failed to get docker image: context canceled"

\* the error Tags makes of a time.Parse failure
TimeErr == "failed to parse image timestamp"

(***************************************************************************)
(* The loop body of Tags over one page's results.                          *)
(***************************************************************************)
ImageTag(result, timestamp, image) ==
    [Tag |-> result.Name, SHA |-> image.Digest, Timestamp |-> timestamp,
     OS |-> image.OS, Architecture |-> image.Architecture]

\* "No images in this result, so continue early"
SkipResult(result) == Len(result.Images) = 0

\* "Image without digest contains no real image."
SkipImageNever(image) == FALSE
SkipImage(image) == Len(image.Digest) = 0

\* tags = append(tags, ...)
AccumulateFront(acc, tag) == <<tag>> \o acc
Accumulate(acc, tag) == Append(acc, tag)

\* the err of time.Parse, as Tags tests it
TimestampErrIgnored(parsed) == FALSE
TimestampErr(parsed) == ~parsed.ok

\* what Tags returns on an error: return nil, err
FailResultPartial(acc, err) == [tags |-> acc, err |-> err]
FailResult(acc, err) == [tags |-> <<>>, err |-> err]

\* the inner loop: for _, image := range result.Images
RECURSIVE AppendImages(_, _, _, _)
AppendImages(acc, result, timestamp, images) ==
    IF images = <<>> THEN acc
    ELSE AppendImages(
            IF SkipImage(Head(images)) THEN acc
            ELSE Accumulate(acc, ImageTag(result, timestamp, Head(images))),
            result, timestamp, Tail(images))

\* the outer loop: for _, result := range response.Results
RECURSIVE ProcessResults(_, _)
ProcessResults(acc, results) ==
    IF results = <<>> THEN [tags |-> acc, err |-> ""]
    ELSE LET result == Head(results)
             parsed == ParseRFC3339Nano(result.Timestamp)
         IN  IF SkipResult(result) THEN ProcessResults(acc, Tail(results))
             ELSE IF TimestampErr(parsed)
                  THEN FailResult(acc, TimeErr)
                  ELSE ProcessResults(
                          AppendImages(acc, result, parsed.t, result.Images),
                          Tail(results))

\* for url != ""
LoopOnce(u) == FALSE
LoopContinues(u) == u # NoURL

(***************************************************************************)
(* doRequest.                                                              *)
(***************************************************************************)
\* http.NewRequest fails on a URL that does not parse
NewRequestErr(u) == u.scheme \notin {"http", "https"}

\* req.URL.Scheme = "https"
RequestURLAsGiven(u) == u
RequestURL(u) == [u EXCEPT !.scheme = "https"]

\* if len(c.JWT) > 0 { req.Header.Add("Authorization", "JWT "+c.JWT) }
AuthHeaderAlways(jwt) == {<<"Authorization", "JWT " \o jwt>>}
AuthHeader(jwt) ==
    IF Len(jwt) > 0 THEN {<<"Authorization", "JWT " \o jwt>>} ELSE {}

\* the request doRequest hands to c.Do
TagsRequest(c, u) ==
    [method |-> "GET", url |-> RequestURL(u), header |-> AuthHeader(c.JWT)]

\* req.WithContext(ctx): c.Do fails when it finds ctx cancelled
CtxIgnored(ctxCancelled) == FALSE
CtxDone(ctxCancelled) == ctxCancelled

\* whether c.Do finds ctx cancelled: always when it was cancelled before the
\* request was handed over; when it is cancelled with the request in flight,
\* the response and the cancellation race
CtxSeen(ctx) ==
    CASE ctx = "no" -> {FALSE}
      [] ctx = "inflight" -> {TRUE, FALSE}
      [] OTHER -> {TRUE}

\* c.Do, ioutil.ReadAll and json.Unmarshal on the registry's answer; the
\* response's StatusCode is not read
DoRequestResultChecked(ctxCancelled, answer) ==
    IF CtxDone(ctxCancelled) THEN CtxErr
    ELSE IF answer.kind = "transport" THEN "failed to get docker image"
    ELSE IF answer.kind = "readerr" THEN "read error"
    ELSE IF answer.status # StatusOK THEN "unexpected status"
    ELSE IF answer.kind = "undecodable" THEN "unexpected image tags response"
    ELSE ""
DoRequestResult(ctxCancelled, answer) ==
    IF CtxDone(ctxCancelled) THEN CtxErr
    ELSE IF answer.kind = "transport" THEN "failed to get docker image"
    ELSE IF answer.kind = "readerr" THEN "read error"
    ELSE IF answer.kind = "undecodable" THEN "unexpected image tags response"
    ELSE ""

(***************************************************************************)
(* New and basicAuthSetup.                                                 *)
(***************************************************************************)
NilClient == [nil |-> TRUE, Username |-> "", Password |-> "", JWT |-> ""]

\* &Client{Options: opts, Client: client}
MakeClient(o) ==
    [nil |-> FALSE, Username |-> o.Username, Password |-> o.Password, JWT |-> o.JWT]

\* len(opts.Username) > 0 || len(opts.Password) > 0
NeedsAuthBoth(o) == Len(o.Username) > 0 /\ Len(o.Password) > 0
NeedsAuth(o) == Len(o.Username) > 0 \/ Len(o.Password) > 0

\* len(opts.JWT) > 0, under NeedsAuth
JWTConflictNever(o) == FALSE
JWTConflict(o) == Len(o.JWT) > 0

\* the characters of the credential strings of this model, one element per
\* character; a run of letters other than a, which holds no character that
\* JSON treats specially, is one element
Chars(s) ==
    CASE s = "" -> <<>>
      [] s = "a\"a" -> <<"a", "\"", "a">>
      [] s = "\\" -> <<"\\">>
      [] s = "\\\\" -> <<"\\", "\\">>
      [] OTHER -> <<s>>

\* fmt.Sprintf(`{"username": "%s", "password": "%s"}`, opts.Username, opts.Password):
\* the verb %s copies the characters of its argument as they are
LoginBody(o) ==
    <<"{", "\"", "username", "\"", ":", " ", "\"">> \o Chars(o.Username)
        \o <<"\"", ",", " ", "\"", "password", "\"", ":", " ", "\"">> \o Chars(o.Password)
        \o <<"\"", "}">>

\* the request basicAuthSetup hands to client.Do
LoginRequest(o) ==
    [method |-> "POST", url |-> "LoginURL",
     header |-> {<<"Content-Type", "application/json">>},
     body |-> LoginBody(o)]

\* basicAuthSetup after client.Do: (token, err)
LoginResult(answer) ==
    IF answer.kind = "transport" THEN [token |-> "", err |-> "transport"]
    ELSE IF answer.kind = "readerr" THEN [token |-> "", err |-> "read error"]
    ELSE IF answer.status # StatusOK THEN [token |-> "", err |-> answer.text]
    ELSE IF ~answer.json THEN [token |-> "", err |-> "invalid character"]
    ELSE [token |-> answer.token, err |-> ""]

(***************************************************************************)
(* The environment: configurations, login answers, references, registry.   *)
(***************************************************************************)
Options(u, p, j) == [Username |-> u, Password |-> p, JWT |-> j]

AllOptions == {Options(u, p, j) : u \in {"", "user"}, p \in {"", "pass"}, j \in {"", "jwt0"}}

LoginAnswer(kind, status, json, token, text) ==
    [kind |-> kind, status |-> status, json |-> json, token |-> token, text |-> text]

LoginOK == LoginAnswer("response", 200, TRUE, "abc", "{\"token\":\"abc\"}")

\* credentials with a double quote or backslashes in them
Credentials == {"", "user", "a\"a", "\\", "\\\\"}

QuotedOptions == {Options(u, p, "") : u \in Credentials, p \in Credentials}

AllLoginAnswers ==
    {LoginOK,
     LoginAnswer("response", 200, TRUE, "", "{}"),
     LoginAnswer("response", 401, TRUE, "abc", "{\"token\":\"abc\"}"),
     LoginAnswer("response", 401, FALSE, "", "unauthorized"),
     LoginAnswer("response", 200, FALSE, "", "<html>"),
     LoginAnswer("transport", 0, FALSE, "", ""),
     LoginAnswer("readerr", 200, FALSE, "", "")}

Refs ==
    {<<"nginx">>,
     <<"docker.io", "nginx">>,
     <<"myorg", "app">>,
     <<"registry.hub.docker.com", "myorg", "app">>,
     <<"docker.io", "registry.hub.docker.com", "nginx">>}

\* references that are not handed to Tags: a host alone, a host followed by
\* nothing, another registry's host before docker.io
OtherRefs == {<<"docker.io">>, <<"docker.io", "">>, <<"quay.io", "docker.io", "nginx">>}

\* IsClient has not been asked
NotAsked == [asked |-> FALSE, imageURL |-> <<>>, result |-> FALSE]

\* the continuation URLs the registry hands out
Page2 == [scheme |-> "https", loc |-> <<"registry.hub.docker.com", "page2">>]
Page3 == [scheme |-> "http", loc |-> <<"registry.hub.docker.com", "page3">>]

NginxLoc == repoURL(<<"library", "nginx">>).loc
AppLoc == repoURL(<<"myorg", "app">>).loc
Locs == {NginxLoc, AppLoc, Page2.loc, Page3.loc}

Image(d, os, arch) == [Digest |-> d, OS |-> os, Architecture |-> arch]
Result(n, ts, imgs) == [Name |-> n, Timestamp |-> ts, Images |-> imgs]

ImgA == Image("sha256:aaa", "linux", "amd64")
ImgB == Image("sha256:bbb", "linux", "arm64")
ImgNoDigest == Image("", "", "")

\* two results: three images of which one has no digest, and no images at all
ResultsPlain ==
    <<Result("v1", "2023-01-01T00:00:00Z", <<ImgA, ImgNoDigest, ImgB>>),
      Result("v0", "2023-01-01T02:00:00.5+02:00", <<>>)>>
\* an unparsable timestamp after a result that was accumulated
ResultsBadTime ==
    <<Result("v2", "2023-01-02T00:00:00.000000001Z", <<ImgB>>),
      Result("v3", "2023-01-01 00:00:00", <<ImgA>>)>>
\* an unparsable timestamp on a result with no images
ResultsBadTimeNoImages ==
    <<Result("v4", "yesterday", <<>>),
      Result("v5", "2023-01-01T02:00:00.5+02:00", <<ImgA>>)>>
\* an unparsable timestamp on a result whose only image has no digest
ResultsBadTimeNoDigest ==
    <<Result("v6", "", <<ImgNoDigest>>)>>

\* what the registry answers: a transport failure, or a response with a
\* status code and a body
Answer(kind, next, results) ==
    [kind |-> kind, next |-> next, results |-> results, status |-> StatusOK]

\* the same body under another status code
WithStatus(answer, code) == [answer EXCEPT !.status = code]

EmptyPage == Answer("page", NoURL, <<>>)
NoPage == Answer("none", NoURL, <<>>)

FailureAnswers ==
    {Answer("transport", NoURL, <<>>),
     Answer("readerr", NoURL, <<>>),
     Answer("undecodable", NoURL, <<>>)}

RichAnswers ==
    {Answer("page", n, r) :
        n \in {NoURL, Page2, Page3},
        r \in {<<>>, ResultsPlain, ResultsBadTime, ResultsBadTimeNoImages,
               ResultsBadTimeNoDigest}}
    \cup {Answer("page", BadURL, ResultsPlain)}
    \cup FailureAnswers

ConcAnswers ==
    {Answer("page", NoURL, ResultsPlain), Answer("page", Page2, ResultsBadTimeNoImages),
     Answer("transport", NoURL, <<>>)}

SmallAnswers ==
    {Answer("page", n, r) : n \in {NoURL, Page2}, r \in {<<>>, ResultsPlain}}
    \cup {Answer("transport", NoURL, <<>>), Answer("page", Page3, ResultsBadTime)}

StatusCodes == {200, 404, 500}

StatusAnswers ==
    {WithStatus(a, code) :
        a \in {Answer("page", NoURL, <<>>), Answer("page", NoURL, ResultsPlain),
               Answer("page", Page3, ResultsPlain), Answer("undecodable", NoURL, <<>>)},
        code \in StatusCodes}

\* the registries that answer the locations in `free` from `answers`
\* and every other location with an empty last page
Registries(free, answers) ==
    {[l \in Locs |-> IF l \in free THEN f[l] ELSE EmptyPage] : f \in [free -> answers]}

(***************************************************************************)
(* Initial states: nothing constructed, no call made.                      *)
(***************************************************************************)
InitWith(optionSet, loginAnswers, registries, callers, ctxs) ==
    /\ opts \in optionSet
    /\ newCtx \in ctxs
    /\ owns = NotAsked
    /\ loginResp \in loginAnswers
    /\ registry \in registries
    /\ newPc = "start"
    /\ client = NilClient
    /\ newErr = ""
    /\ loginLog = <<>>
    /\ pc = [c \in Calls |-> IF c \in callers THEN "idle" ELSE "off"]
    /\ ref = [c \in Calls |-> <<>>]
    /\ url = [c \in Calls |-> NoURL]
    /\ tags = [c \in Calls |-> <<>>]
    /\ page = [c \in Calls |-> NoPage]
    /\ ret = [c \in Calls |-> [tags |-> <<>>, err |-> ""]]
    /\ cancelled = [c \in Calls |-> "no"]
    /\ reqs = [c \in Calls |-> <<>>]

\* one Tags call against every registry of rich answers on a client built
\* without a login, or against a small registry on a client that logged in
Init ==
    \/ InitWith({Options("", "", "jwt0")}, {LoginOK},
                Registries({NginxLoc, Page2.loc, Page3.loc}, RichAnswers), {1}, {"no"})
    \/ InitWith({Options("user", "pass", "")}, {LoginOK},
                Registries({NginxLoc, Page2.loc}, SmallAnswers), {1}, {"no"})

(***************************************************************************)
(* New.                                                                    *)
(***************************************************************************)
\* New up to the call of client.Do in basicAuthSetup, or to its return
NewStart ==
    /\ newPc = "start"
    /\ IF NeedsAuth(opts)
       THEN IF JWTConflict(opts)
            THEN /\ newPc' = "failed"
                 /\ newErr' = "cannot specify JWT as well as username/password"
                 /\ UNCHANGED <<client, loginLog>>
            ELSE /\ newPc' = "login"
                 /\ loginLog' = Append(loginLog, LoginRequest(opts))
                 /\ UNCHANGED <<client, newErr>>
       ELSE /\ newPc' = "ready"
            /\ client' = MakeClient(opts)
            /\ UNCHANGED <<newErr, loginLog>>
    /\ UNCHANGED <<opts, loginResp, registry, newCtx, owns>>
    /\ UNCHANGED callVars

\* basicAuthSetup from the return of client.Do, and New to its return
NewLoginDone ==
    /\ newPc = "login"
    /\ LET r == LoginResult(loginResp)
       IN  IF r.err # ""
           THEN /\ newPc' = "failed"
                /\ newErr' = "failed to setup auth: " \o r.err
                /\ UNCHANGED client
           ELSE /\ newPc' = "ready"
                /\ client' = MakeClient([opts EXCEPT !.JWT = r.token])
                /\ UNCHANGED newErr
    /\ UNCHANGED <<opts, loginResp, registry, loginLog, newCtx, owns>>
    /\ UNCHANGED callVars

(***************************************************************************)
(* Tags.                                                                   *)
(***************************************************************************)
\* Tags returns
Return(c, result) ==
    /\ pc' = [pc EXCEPT ![c] = "done"]
    /\ ret' = [ret EXCEPT ![c] = result]

\* the transport double's record of a call's requests
Record(log, req) == IF Len(log) < MaxRequests THEN Append(log, req) ELSE log

\* the tags accumulated so far, as the call reads them
TagsOfOther(c) == tags[CHOOSE d \in Calls : d # c]
TagsOf(c) == tags[c]

\* Tags up to the loop: normalisation and the first URL
TagsStart(c, imageURL) ==
    /\ newPc = "ready"
    /\ pc[c] = "idle"
    /\ ref' = [ref EXCEPT ![c] = imageURL]
    /\ url' = [url EXCEPT ![c] = FirstURL(imageURL)]
    /\ tags' = [tags EXCEPT ![c] = <<>>]
    /\ IF LoopContinues(FirstURL(imageURL))
       THEN pc' = [pc EXCEPT ![c] = "request"] /\ UNCHANGED ret
       ELSE Return(c, [tags |-> <<>>, err |-> ""])
    /\ owns' = NotAsked
    /\ UNCHANGED <<page, cancelled, reqs, registry>>
    /\ UNCHANGED newVars

\* doRequest up to the call of c.Do
SendRequest(c) ==
    /\ pc[c] = "request"
    /\ IF NewRequestErr(url[c])
       THEN /\ Return(c, FailResult(TagsOf(c), "parse error"))
            /\ UNCHANGED reqs
       ELSE /\ reqs' = [reqs EXCEPT ![c] = Record(@, TagsRequest(client, url[c]))]
            /\ pc' = [pc EXCEPT ![c] = "inflight"]
            /\ UNCHANGED ret
    /\ UNCHANGED <<ref, url, tags, page, cancelled, registry, owns>>
    /\ UNCHANGED newVars

\* doRequest from the return of c.Do: the body read and decoded
RecvResponse(c) ==
    /\ pc[c] = "inflight"
    /\ \E seen \in CtxSeen(cancelled[c]) :
          LET answer == registry[url[c].loc]
              err == DoRequestResult(seen, answer)
          IN  IF err # ""
              THEN /\ Return(c, FailResult(TagsOf(c), err))
                   /\ UNCHANGED page
              ELSE /\ page' = [page EXCEPT ![c] = answer]
                   /\ pc' = [pc EXCEPT ![c] = "process"]
                   /\ UNCHANGED ret
    /\ cancelled' = [cancelled EXCEPT ![c] = IF @ = "no" THEN "no" ELSE "yes"]
    /\ UNCHANGED <<ref, url, tags, reqs, registry, owns>>
    /\ UNCHANGED newVars

\* the rest of the loop body: the results, url = response.Next, the loop test
ProcessPage(c) ==
    /\ pc[c] = "process"
    /\ LET r == ProcessResults(TagsOf(c), page[c].results)
       IN  IF r.err # ""
           THEN /\ Return(c, r)
                /\ UNCHANGED <<url, tags>>
           ELSE /\ Len(r.tags) <= MaxTags
                /\ tags' = [tags EXCEPT ![c] = r.tags]
                /\ url' = [url EXCEPT ![c] = page[c].next]
                /\ IF LoopContinues(page[c].next)
                   THEN pc' = [pc EXCEPT ![c] = "request"] /\ UNCHANGED ret
                   ELSE Return(c, [tags |-> r.tags, err |-> ""])
    /\ page' = [page EXCEPT ![c] = NoPage]
    /\ UNCHANGED <<ref, cancelled, reqs, registry, owns>>
    /\ UNCHANGED newVars

\* the caller cancels the context it passed to Tags
Cancel(c) ==
    /\ pc[c] \in {"idle", "request", "inflight", "process"}
    /\ cancelled[c] = "no"
    /\ cancelled' = [cancelled EXCEPT ![c] = IF pc[c] = "inflight" THEN "inflight" ELSE "yes"]
    /\ UNCHANGED <<pc, ref, url, tags, page, ret, reqs, registry, owns>>
    /\ UNCHANGED newVars

\* IsClient: two prefix tests on its argument, the receiver untouched
IsClientCall(imageURL) ==
    /\ newPc = "ready"
    /\ \A c \in Calls : pc[c] \in {"idle", "off"}
    /\ owns' = [asked |-> TRUE, imageURL |-> imageURL, result |-> IsClient(imageURL)]
    /\ UNCHANGED registry
    /\ UNCHANGED newVars
    /\ UNCHANGED callVars

\* the caller cancels the context it passed to New while the login POST is
\* in flight; New hands basicAuthSetup the http.Client and the Options only
CancelNew ==
    /\ newPc = "login"
    /\ newCtx = "no"
    /\ newCtx' = "yes"
    /\ UNCHANGED <<opts, loginResp, registry, newPc, client, newErr, loginLog, owns>>
    /\ UNCHANGED callVars

Step(c) == SendRequest(c) \/ RecvResponse(c) \/ ProcessPage(c)

Next ==
    \/ NewStart
    \/ NewLoginDone
    \/ \E c \in Calls, r \in Refs : TagsStart(c, r)
    \/ \E c \in Calls : SendRequest(c)
    \/ \E c \in Calls : RecvResponse(c)
    \/ \E c \in Calls : ProcessPage(c)
    \/ \E c \in Calls : Cancel(c)
    \/ \E r \in Refs \cup OtherRefs : IsClientCall(r)
    \/ CancelNew

Spec == Init /\ [][Next]_vars

(***************************************************************************)
(* Further specifications: the same program in other environments.         *)
(***************************************************************************)
\* every configuration and every login answer, one call, a small registry;
\* the ctx handed to New may be cancelled already
InitNew ==
    InitWith(AllOptions, AllLoginAnswers,
             Registries({NginxLoc, Page2.loc}, SmallAnswers), {1}, {"no", "yes"})

SpecNew == InitNew /\ [][Next]_vars

\* two concurrent calls on one client
InitConc ==
    InitWith({Options("", "", "jwt0"), Options("user", "", "")}, {LoginOK},
             Registries({NginxLoc, AppLoc, Page2.loc}, ConcAnswers), Calls, {"no"})

SpecConc == InitConc /\ [][Next]_vars

\* a call that has started keeps running: the transport answers or times out
InitFair ==
    InitWith({Options("", "", ""), Options("user", "pass", "")}, {LoginOK},
             Registries({NginxLoc, Page2.loc, Page3.loc}, SmallAnswers), {1}, {"no"})

SpecFair == InitFair /\ [][Next]_vars /\ \A c \in Calls : WF_vars(Step(c))

\* credentials that hold a double quote or a backslash
InitLogin ==
    InitWith(QuotedOptions, {LoginOK, LoginAnswer("response", 401, FALSE, "", "unauthorized")},
             Registries({NginxLoc}, SmallAnswers), {1}, {"no"})

SpecLogin == InitLogin /\ [][Next]_vars

\* a registry that answers with statuses other than 200
InitStatus ==
    InitWith({Options("", "", "jwt0"), Options("user", "pass", "")}, {LoginOK},
             Registries({NginxLoc, Page3.loc}, StatusAnswers), {1}, {"no"})

SpecStatus == InitStatus /\ [][Next]_vars

(***************************************************************************)
(* What the registry holds, read off without running Tags.                 *)
(***************************************************************************)
\* the concatenation of a sequence of sequences
RECURSIVE Concat(_)
Concat(ss) == IF ss = <<>> THEN <<>> ELSE Head(ss) \o Concat(Tail(ss))

\* the images of a result that have a digest, in order
WithDigest(result) == SelectSeq(result.Images, LAMBDA i : i.Digest # "")

\* one ImageTag per image of the result that has a digest
ResultEmissions(result) ==
    LET imgs == WithDigest(result)
    IN  [k \in 1..Len(imgs) |->
            [Tag |-> result.Name, SHA |-> imgs[k].Digest,
             Timestamp |-> ParseRFC3339Nano(result.Timestamp).t,
             OS |-> imgs[k].OS, Architecture |-> imgs[k].Architecture]]

\* a page's emissions: result by result, image by image
PageEmissions(answer) ==
    Concat([k \in 1..Len(answer.results) |-> ResultEmissions(answer.results[k])])

\* every result of the page that has images has a timestamp that parses
WellTimed(answer) ==
    \A k \in 1..Len(answer.results) :
        answer.results[k].Images # <<>> =>
            ParseRFC3339Nano(answer.results[k].Timestamp).ok

\* the URLs of the chain of pages that starts at u, at most fuel of them
RECURSIVE Chain(_, _, _)
Chain(reg, u, fuel) ==
    IF u = NoURL \/ fuel = 0 THEN <<>>
    ELSE IF u.loc \in Locs /\ reg[u.loc].kind = "page"
         THEN <<u>> \o Chain(reg, reg[u.loc].next, fuel - 1)
         ELSE <<u>>

\* the chain from u is a chain of n decodable, well-timed pages, the last
\* with an empty next
ChainSucceeds(reg, u) ==
    LET ch == Chain(reg, u, Cardinality(Locs) + 1)
    IN  /\ Len(ch) <= Cardinality(Locs)
        /\ \A k \in 1..Len(ch) :
              /\ ch[k].loc \in Locs
              /\ reg[ch[k].loc].kind = "page"
              /\ WellTimed(reg[ch[k].loc])
        /\ reg[ch[Len(ch)].loc].next = NoURL

\* the answer to the k-th recorded request of call c
Fetched(c, k) == registry[reqs[c][k].url.loc]

\* the call read and decoded the answer to its k-th recorded request
Decoded(c, k) ==
    /\ k \in 1..Len(reqs[c])
    /\ \/ k < Len(reqs[c])
       \/ pc[c] = "process"
       \/ pc[c] = "done" /\ ret[c].err \in {"", TimeErr}

Failed(c) == pc[c] = "done" /\ ret[c].err # ""
Succeeded(c) == pc[c] = "done" /\ ret[c].err = ""

(***************************************************************************)
(* C1: a Tags call that fails returns no tags and a non-nil error, however *)
(* many tags it had accumulated; a transport error, an unreadable or       *)
(* undecodable body and an unparsable timestamp (of a result with images)  *)
(* on the page last requested each make it fail; and a call that has       *)
(* returned issues no further request.                                     *)
(***************************************************************************)
C1_FailureState ==
    \A c \in Calls :
        /\ Failed(c) => ret[c].tags = <<>>
        /\ pc[c] = "done" /\ reqs[c] # <<>> /\ Len(reqs[c]) < MaxRequests =>
              LET last == Fetched(c, Len(reqs[c]))
              IN  (last.kind # "page" \/ ~WellTimed(last)) => Failed(c)

C1_NoRequestAfterReturn ==
    \A c \in Calls : pc'[c] = "done" => reqs'[c] = reqs[c]

\* C1: a failed Tags call returns no tags and an error, each failure of the
\* page last requested fails the call, and a returned call requests nothing
C1_FailedTagsReturnsNothing ==
    []C1_FailureState /\ [][C1_NoRequestAfterReturn]_vars

\* a call failed on a later page, with tags accumulated from the earlier ones
C1_Witness ==
    \E c \in Calls :
        /\ Failed(c) /\ ret[c].err # CtxErr
        /\ Len(reqs[c]) >= 2
        /\ tags[c] # <<>>

(***************************************************************************)
(* C2: when the chain of pages from the first URL has n pages that all     *)
(* decode (with timestamps that parse) and the context is not cancelled,   *)
(* Tags issues exactly n GET requests, the k-th to the k-th URL of the     *)
(* chain, and returns the pages' emissions concatenated in chain order.    *)
(***************************************************************************)
C2_PaginationConcatenates ==
    \A c \in Calls :
        (pc[c] = "done" /\ ret[c].err # CtxErr
         /\ ChainSucceeds(registry, FirstURL(ref[c]))) =>
            LET ch == Chain(registry, FirstURL(ref[c]), Cardinality(Locs) + 1)
            IN  /\ Len(reqs[c]) = Len(ch)
                /\ \A k \in 1..Len(ch) :
                      /\ reqs[c][k].method = "GET"
                      /\ reqs[c][k].url.loc = ch[k].loc
                /\ ret[c].err = ""
                /\ ret[c].tags =
                      Concat([k \in 1..Len(ch) |-> PageEmissions(registry[ch[k].loc])])

\* a three-page resolution with emissions from two pages at least
C2_Witness ==
    \E c \in Calls :
        /\ Succeeded(c)
        /\ Len(reqs[c]) = 3
        /\ PageEmissions(Fetched(c, 1)) # <<>>
        /\ PageEmissions(Fetched(c, 3)) # <<>>
        /\ Fetched(c, 1) # Fetched(c, 3)

(***************************************************************************)
(* C3: every ImageTag a call holds or returns has a non-empty digest, and  *)
(* a successful call returns exactly one ImageTag per (result, image) pair *)
(* with a digest of the pages it fetched, in page, result and image order, *)
(* carrying the result's name and parsed timestamp and the image's digest, *)
(* OS and architecture.                                                    *)
(***************************************************************************)
\* <<page, result, image>> indices of the images with a digest
Pairs(c) ==
    {<<k, i, j>> \in (1..Len(reqs[c])) \X (1..2) \X (1..3) :
        /\ i <= Len(Fetched(c, k).results)
        /\ j <= Len(Fetched(c, k).results[i].Images)
        /\ Fetched(c, k).results[i].Images[j].Digest # ""}

Before(p, q) ==
    \/ p[1] < q[1]
    \/ p[1] = q[1] /\ p[2] < q[2]
    \/ p[1] = q[1] /\ p[2] = q[2] /\ p[3] <= q[3]

Rank(c, q) == Cardinality({p \in Pairs(c) : Before(p, q)})

C3_OneTagPerDigest ==
    \A c \in Calls :
        /\ \A n \in 1..Len(tags[c]) : tags[c][n].SHA # ""
        /\ \A n \in 1..Len(ret[c].tags) : ret[c].tags[n].SHA # ""
        /\ Succeeded(c) =>
              /\ Len(ret[c].tags) = Cardinality(Pairs(c))
              /\ \A q \in Pairs(c) :
                    LET result == Fetched(c, q[1]).results[q[2]]
                        image == result.Images[q[3]]
                        tag == ret[c].tags[Rank(c, q)]
                    IN  /\ tag.Tag = result.Name
                        /\ ParseRFC3339Nano(result.Timestamp).ok
                        /\ tag.Timestamp = ParseRFC3339Nano(result.Timestamp).t
                        /\ tag.SHA = image.Digest
                        /\ tag.OS = image.OS
                        /\ tag.Architecture = image.Architecture

\* a successful call that dropped an image without digest and kept its siblings
C3_Witness ==
    \E c \in Calls :
        /\ Succeeded(c)
        /\ Len(ret[c].tags) >= 3
        /\ \E k \in 1..Len(reqs[c]) : Fetched(c, k).results = ResultsPlain

(***************************************************************************)
(* C4 as stated: an unparsable last_updated on any result of any page the  *)
(* call decoded makes Tags fail with no tags.                              *)
(***************************************************************************)
C4_AnyBadTimestampAborts ==
    \A c \in Calls :
        pc[c] = "done" =>
            \A k \in 1..Len(reqs[c]) :
                (Decoded(c, k) /\ \E i \in 1..Len(Fetched(c, k).results) :
                    ~ParseRFC3339Nano(Fetched(c, k).results[i].Timestamp).ok)
                => ret[c] = [tags |-> <<>>, err |-> TimeErr]

(***************************************************************************)
(* C4 amended: an unparsable last_updated on a result whose images list is *)
(* not empty, on any page the call decoded, makes Tags fail with no tags   *)
(* and the timestamp error.                                                *)
(***************************************************************************)
C4_BadTimestampWithImagesAborts ==
    \A c \in Calls :
        pc[c] = "done" =>
            \A k \in 1..Len(reqs[c]) :
                (Decoded(c, k) /\ ~WellTimed(Fetched(c, k)))
                => ret[c] = [tags |-> <<>>, err |-> TimeErr]

\* a call aborted by a timestamp on its second page or later, and one aborted
\* by the timestamp of a result whose only image has no digest
C4_Witness ==
    \E c \in Calls :
        /\ pc[c] = "done" /\ ret[c].err = TimeErr
        /\ Len(reqs[c]) >= 2
        /\ tags[c] # <<>>
        /\ Fetched(c, Len(reqs[c])).results = ResultsBadTimeNoDigest

(***************************************************************************)
(* C5: New called with a non-empty token and a non-empty username or       *)
(* password returns the configuration-conflict error and no client, and    *)
(* no request, login POST or tag-listing GET, is ever issued.              *)
(***************************************************************************)
Conflicting(o) == o.JWT # "" /\ (o.Username # "" \/ o.Password # "")

C5_ConflictBeforeAnyRequest ==
    Conflicting(opts) =>
        /\ newPc \in {"start", "failed"}
        /\ newPc = "failed" =>
              newErr = "cannot specify JWT as well as username/password"
        /\ client = NilClient
        /\ loginLog = <<>>
        /\ \A c \in Calls : reqs[c] = <<>>

\* New has returned the conflict error for a token given with a password only
C5_Witness ==
    /\ newPc = "failed"
    /\ opts.JWT # "" /\ opts.Username = "" /\ opts.Password # ""

(***************************************************************************)
(* C6: New issues a login request exactly when username or password is     *)
(* non-empty and the token is empty, and then exactly one POST; a 200      *)
(* answer with a decodable body makes the client's token the body's token  *)
(* (possibly empty); any other answer makes New return an error and no     *)
(* client.  With username and password both empty New issues no request    *)
(* and the client's token is the configured one.                           *)
(***************************************************************************)
LoginWanted(o) == (o.Username # "" \/ o.Password # "") /\ o.JWT = ""
Returned == newPc \in {"ready", "failed"}
GoodLogin(a) == a.kind = "response" /\ a.status = 200 /\ a.json

C6_LoginExactlyWhenNeeded ==
    /\ Len(loginLog) <= 1
    /\ \A k \in 1..Len(loginLog) : loginLog[k].method = "POST"
    /\ Returned => (loginLog # <<>> <=> LoginWanted(opts))
    /\ (newPc = "start" \/ ~LoginWanted(opts)) => loginLog = <<>>
    /\ (Returned /\ LoginWanted(opts) /\ GoodLogin(loginResp)) =>
          /\ newPc = "ready" /\ newErr = ""
          /\ client = [nil |-> FALSE, Username |-> opts.Username,
                       Password |-> opts.Password, JWT |-> loginResp.token]
    /\ (Returned /\ LoginWanted(opts) /\ ~GoodLogin(loginResp)) =>
          newPc = "failed" /\ newErr # "" /\ client = NilClient
    /\ (Returned /\ opts.Username = "" /\ opts.Password = "") =>
          /\ newPc = "ready" /\ newErr = ""
          /\ client = [nil |-> FALSE, Username |-> "", Password |-> "",
                       JWT |-> opts.JWT]
    /\ newPc = "ready" <=> ~client.nil

\* a login with a password only succeeded and returned an empty token
C6_Witness ==
    /\ newPc = "ready"
    /\ opts.Username = "" /\ opts.Password # ""
    /\ Len(loginLog) = 1
    /\ client.JWT = ""

(***************************************************************************)
(* C7: every tag-listing request of every page carries the single header   *)
(* Authorization: JWT <token> with the client's token when that token is   *)
(* non-empty, and no Authorization header when it is empty.                *)
(***************************************************************************)
C7_AuthorizationHeader ==
    \A c \in Calls : \A k \in 1..Len(reqs[c]) :
        LET auth == {h \in reqs[c][k].header : h[1] = "Authorization"}
        IN  /\ ~client.nil
            /\ client.JWT # "" => auth = {<<"Authorization", "JWT " \o client.JWT>>}
            /\ client.JWT = "" => auth = {}

\* two pages requested with the token of a login, and two with no header
\* after a login that returned an empty token
C7_Witness ==
    \E c \in Calls :
        /\ Len(reqs[c]) >= 2
        /\ loginLog # <<>>
        /\ client.JWT = ""
        /\ reqs[c][2].header = {}

(***************************************************************************)
(* C8: concurrent Tags calls on one client are independent: the requests   *)
(* and the result of each call are those of the same call run alone on the *)
(* same registry (with the cancellation, if any, observed by the same      *)
(* request), under every interleaving; and once New has returned, no step  *)
(* changes the client or its options.                                      *)
(***************************************************************************)
\* Tags run alone from the loop test on: the requests it issues and what it
\* returns; the cancelAt-th request (if any) finds the context cancelled
RECURSIVE RunAlone(_, _, _, _, _, _)
RunAlone(reg, cl, u, acc, log, cancelAt) ==
    IF ~LoopContinues(u) THEN [reqs |-> log, ret |-> [tags |-> acc, err |-> ""]]
    ELSE IF NewRequestErr(u)
         THEN [reqs |-> log, ret |-> FailResult(acc, "parse error")]
    ELSE IF Len(log) >= MaxRequests
         THEN [reqs |-> log, ret |-> [tags |-> <<>>, err |-> "not followed"]]
    ELSE LET sent == Append(log, TagsRequest(cl, u))
             err == DoRequestResult(Len(sent) = cancelAt, reg[u.loc])
             r == ProcessResults(acc, reg[u.loc].results)
         IN  IF err # "" THEN [reqs |-> sent, ret |-> FailResult(acc, err)]
             ELSE IF r.err # "" THEN [reqs |-> sent, ret |-> r]
             ELSE RunAlone(reg, cl, reg[u.loc].next, r.tags, sent, cancelAt)

C8_AsIfAlone ==
    \A c \in Calls :
        (pc[c] = "done" /\ Len(reqs[c]) < MaxRequests) =>
            LET alone == RunAlone(registry, client, FirstURL(ref[c]), <<>>, <<>>,
                                  IF ret[c].err = CtxErr THEN Len(reqs[c]) ELSE 0)
            IN  reqs[c] = alone.reqs /\ ret[c] = alone.ret

C8_ClientUnchanged ==
    Returned => client' = client /\ opts' = opts /\ newPc' = newPc

\* C8: every call runs as if alone, and the client stays as New left it
C8_ConcurrentCallsIndependent ==
    []C8_AsIfAlone /\ [][C8_ClientUnchanged]_vars

\* a call returned tags of two pages while the other, holding tags of its own
\* first page, had its second request in flight
C8_Witness ==
    \E c, d \in Calls :
        /\ c # d
        /\ Succeeded(c) /\ Len(reqs[c]) = 2 /\ Len(ret[c].tags) >= 3
        /\ pc[d] = "inflight" /\ Len(reqs[d]) = 2 /\ tags[d] # <<>>
        /\ ref[c] # ref[d]

(***************************************************************************)
(* C9: a request issued after the context was cancelled fails; a request   *)
(* in flight when it is cancelled fails or, if its response wins the race, *)
(* leaves the cancellation to the next request; Tags then returns the      *)
(* context error with no tags, whatever it had accumulated, and requests   *)
(* no further page.                                                        *)
(***************************************************************************)
C9_CancelledState ==
    \A c \in Calls :
        /\ (pc[c] = "done" /\ ret[c].err = CtxErr) =>
              cancelled[c] = "yes" /\ ret[c].tags = <<>> /\ reqs[c] # <<>>
        /\ pc[c] = "request" => cancelled[c] # "inflight"

C9_CancelledStep ==
    \A c \in Calls :
        /\ (cancelled[c] = "yes" /\ pc[c] = "inflight" /\ pc'[c] # "inflight") =>
              /\ pc'[c] = "done"
              /\ ret'[c] = [tags |-> <<>>, err |-> CtxErr]
              /\ reqs'[c] = reqs[c]
        /\ (cancelled[c] = "inflight" /\ pc'[c] # pc[c]) =>
              /\ cancelled'[c] = "yes"
              /\ \/ pc'[c] = "done" /\ ret'[c].tags = <<>> /\ ret'[c].err # ""
                 \/ pc'[c] = "process"
              /\ reqs'[c] = reqs[c]
        /\ (cancelled[c] = "yes" /\ pc[c] = "request" /\ pc'[c] # "request") =>
              \/ pc'[c] = "inflight"
              \/ pc'[c] = "done" /\ ret'[c].tags = <<>> /\ ret'[c].err # ""
                 /\ reqs'[c] = reqs[c]
        /\ (cancelled[c] = "no" /\ pc'[c] = "done" /\ pc[c] # "done") =>
              ret'[c].err # CtxErr
        /\ pc[c] = "done" => pc'[c] = "done" /\ ret'[c] = ret[c] /\ reqs'[c] = reqs[c]
        /\ cancelled[c] # "no" => cancelled'[c] # "no"

Running(c) == pc[c] \in {"request", "inflight", "process"}

\* the model follows the call no further: its next page would exceed MaxTags
AtCap(c) ==
    /\ pc[c] = "process"
    /\ Len(ProcessResults(tags[c], page[c].results).tags) > MaxTags

C10_TagsTerminates ==
    \A c \in Calls : Running(c) ~> (pc[c] = "done" \/ AtCap(c))

(***************************************************************************)
(* C10 amended: the loop has no bound on the number of pages; it requests  *)
(* the next page for as long as the page just processed names one.  A call *)
(* returns when the chain of pages from its first URL ends (an empty next, *)
(* or a page or URL that fails); on a cyclic chain of decodable pages with *)
(* parsable timestamps it returns only if its context is cancelled.        *)
(***************************************************************************)
\* the chain of pages from u leads back to a page already fetched, and every
\* page on it decodes and has timestamps that parse
Diverges(reg, u) ==
    LET n == Cardinality(Locs)
        ch == Chain(reg, u, n + 1)
    IN  /\ Len(ch) = n + 1
        /\ ch[n + 1].loc \in Locs
        /\ \A k \in 1..n : WellTimed(reg[ch[k].loc])

C10_CycleNeverReturns ==
    \A c \in Calls :
        (pc[c] = "done" /\ Diverges(registry, FirstURL(ref[c]))) =>
            ret[c] = [tags |-> <<>>, err |-> CtxErr]

\* C10 amended: on a cyclic chain Tags returns only if cancelled, and on every
\* other chain a running call returns
C10_ReturnsIffChainEnds ==
    /\ []C10_CycleNeverReturns
    /\ \A c \in Calls :
          (Running(c) /\ ~Diverges(registry, FirstURL(ref[c]))) ~> (pc[c] = "done")

\* a call on a cyclic chain has requested more pages than the registry has
C10_Witness ==
    \E c \in Calls :
        /\ Diverges(registry, FirstURL(ref[c]))
        /\ pc[c] = "request"
        /\ Len(reqs[c]) = MaxRequests
        /\ \E k \in 2..Len(reqs[c]) : reqs[c][k].url.loc = reqs[c][k - 1].url.loc

(***************************************************************************)
(* C11: the body of the login request, read as JSON by its receiver.       *)
(***************************************************************************)
JSONFail == [ok |-> FALSE, val |-> <<>>, next |-> 0]

\* the position of the first character at or after i that is not white space
RECURSIVE SkipSpace(_, _)
SkipSpace(s, i) == IF i <= Len(s) /\ s[i] = " " THEN SkipSpace(s, i + 1) ELSE i

\* the characters of a JSON string from position i, just after its opening
\* quote, to its closing quote; of the escapes only \" and \\ can be spelt
\* with the characters of this model
RECURSIVE ScanString(_, _, _)
ScanString(s, i, acc) ==
    IF i > Len(s) THEN JSONFail
    ELSE IF s[i] = "\"" THEN [ok |-> TRUE, val |-> acc, next |-> i + 1]
    ELSE IF s[i] = "\\"
         THEN IF i + 1 <= Len(s) /\ s[i + 1] \in {"\"", "\\"}
              THEN ScanString(s, i + 2, Append(acc, s[i + 1]))
              ELSE JSONFail
    ELSE ScanString(s, i + 1, Append(acc, s[i]))

\* a JSON string at position i
JSONString(s, i) ==
    IF i <= Len(s) /\ s[i] = "\"" THEN ScanString(s, i + 1, <<>>) ELSE JSONFail

\* the members of a JSON object from position i, as <<key, value>> pairs
RECURSIVE JSONMembers(_, _, _)
JSONMembers(s, i, acc) ==
    LET k == JSONString(s, SkipSpace(s, i))
        colon == SkipSpace(s, k.next)
        v == JSONString(s, SkipSpace(s, colon + 1))
        after == SkipSpace(s, v.next)
    IN  IF ~k.ok \/ colon > Len(s) \/ s[colon] # ":" THEN JSONFail
        ELSE IF ~v.ok \/ after > Len(s) THEN JSONFail
        ELSE IF s[after] = "," THEN JSONMembers(s, after + 1, Append(acc, <<k.val, v.val>>))
        ELSE IF s[after] = "}" /\ SkipSpace(s, after + 1) > Len(s)
             THEN [ok |-> TRUE, val |-> Append(acc, <<k.val, v.val>>), next |-> Len(s) + 1]
        ELSE JSONFail

\* a JSON object whose values are strings, decoded from the whole of s
JSONObject(s) ==
    LET open == SkipSpace(s, 1)
    IN  IF open > Len(s) \/ s[open] # "{" THEN JSONFail
        ELSE JSONMembers(s, open + 1, <<>>)

\* the object decodes and its field `key` holds exactly `value`
DecodesTo(body, key, value) ==
    LET obj == JSONObject(body)
    IN  /\ obj.ok
        /\ \E k \in 1..Len(obj.val) : obj.val[k][1] = <<key>>
        /\ \A k \in 1..Len(obj.val) : obj.val[k][1] = <<key>> => obj.val[k][2] = value

\* C11: the body of every login request is a well-formed JSON object whose
\* username and password decode to the configured username and password
C11_LoginBodyEscaped ==
    \A k \in 1..Len(loginLog) :
        /\ DecodesTo(loginLog[k].body, "username", Chars(opts.Username))
        /\ DecodesTo(loginLog[k].body, "password", Chars(opts.Password))

\* credentials of letters only do decode to themselves
C11_PlainBodyDecodes ==
    \A k \in 1..Len(loginLog) :
        (opts.Username \in {"", "user"} /\ opts.Password \in {"", "user"}) =>
            /\ DecodesTo(loginLog[k].body, "username", Chars(opts.Username))
            /\ DecodesTo(loginLog[k].body, "password", Chars(opts.Password))

(***************************************************************************)
(* C12: the repository path of the first request.                          *)
(***************************************************************************)
\* the reference without the recognized host prefix it begins with
WithoutHost(imageURL) ==
    IF HasPrefix(imageURL, imagePrefix) THEN TrimPrefix(imageURL, imagePrefix)
    ELSE IF HasPrefix(imageURL, imagePrefixHub) THEN TrimPrefix(imageURL, imagePrefixHub)
    ELSE imageURL

\* library/ before a remainder that has no '/'
WithLibrary(rest) == IF Len(rest) = 1 THEN <<"library">> \o rest ELSE rest

\* C12: the path Tags requests is the reference without the one host prefix
\* it begins with, library/ prepended when that remainder has no '/'
C12_PathStripsOnePrefix ==
    \A c \in Calls :
        reqs[c] # <<>> => reqs[c][1].url.loc = repoURL(WithLibrary(WithoutHost(ref[c]))).loc

\* for a reference that does not hold both prefixes one after the other the
\* path is the one described
C12_PathOfSinglePrefix ==
    \A c \in Calls :
        (reqs[c] # <<>> /\ ~HasPrefix(WithoutHost(ref[c]), imagePrefixHub)) =>
            reqs[c][1].url.loc = repoURL(WithLibrary(WithoutHost(ref[c]))).loc

(***************************************************************************)
(* C13: IsClient.                                                          *)
(***************************************************************************)
\* the references of this model that begin with docker.io/ or with
\* registry.hub.docker.com/, listed one by one
BeginWithHost ==
    {<<"docker.io", "nginx">>,
     <<"docker.io", "">>,
     <<"docker.io", "registry.hub.docker.com", "nginx">>,
     <<"registry.hub.docker.com", "myorg", "app">>}

C13_Answer == owns.asked => (owns.result <=> owns.imageURL \in BeginWithHost)

\* a step in which IsClient returns leaves the client, the requests made so
\* far and every call as they were
C13_Pure ==
    (owns'.asked /\ owns' # owns) =>
        /\ UNCHANGED <<client, opts, loginLog, reqs, registry>>
        /\ UNCHANGED <<newPc, newErr, newCtx, loginResp>>
        /\ UNCHANGED callVars

\* C13: IsClient returns true exactly for the references that begin with one
\* of the two host prefixes, issues no request and changes no client state
C13_IsClientIsPrefixTest == []C13_Answer /\ [][C13_Pure]_vars

\* IsClient has said no to a reference that names docker.io after another host
C13_Witness ==
    /\ owns.asked
    /\ owns.imageURL = <<"quay.io", "docker.io", "nginx">>
    /\ ~owns.result
    /\ ~client.nil

\* IsClient has said yes to a reference of the hub host
C13_WitnessOwned ==
    /\ owns.asked
    /\ owns.imageURL = <<"registry.hub.docker.com", "myorg", "app">>
    /\ owns.result

(***************************************************************************)
(* C14: Tags on a reference IsClient says no to.                           *)
(***************************************************************************)
\* C14 as stated: no tag-listing request for a reference IsClient rejects
C14_NoRequestForUnowned ==
    \A c \in Calls : ~IsClient(ref[c]) => reqs[c] = <<>>

\* C14 amended: Tags does not ask IsClient; a call on a reference that has
\* neither host prefix requests the tags of that reference, library/ prepended
\* when it has no '/'
C14_TagsResolvesAnyReference ==
    \A c \in Calls :
        (pc[c] \in {"inflight", "process", "done"} /\ ~IsClient(ref[c])) =>
            /\ reqs[c] # <<>>
            /\ reqs[c][1].method = "GET"
            /\ reqs[c][1].url = repoURL(WithLibrary(ref[c]))

\* Tags("nginx") has returned the tags of library/nginx
C14_Witness ==
    \E c \in Calls :
        /\ ref[c] = <<"nginx">>
        /\ ~IsClient(ref[c])
        /\ pc[c] = "done"
        /\ reqs[c][1].url.loc = NginxLoc
        /\ ret[c].err = ""
        /\ ret[c].tags # <<>>

(***************************************************************************)
(* C15: the ctx of New and the login request.                              *)
(***************************************************************************)
\* C15: when the ctx handed to New is cancelled before or during the login
\* POST, New returns an error and no client
C15_CancelAbortsLogin ==
    (newCtx = "yes" /\ loginLog # <<>> /\ Returned) =>
        /\ newPc = "failed"
        /\ newErr # ""
        /\ client = NilClient

\* what New returns is decided by the configuration and by the login
\* endpoint's answer alone, whatever became of its ctx
C15_NewIgnoresCtx ==
    (loginLog # <<>> /\ Returned) =>
        (newPc = "ready" <=> LoginResult(loginResp).err = "")

(***************************************************************************)
(* C16: the scheme of the tag-listing requests.                            *)
(***************************************************************************)
\* the k-th recorded request of call c went to a next URL that its page spelt
\* with the scheme http
FollowedHTTP(c, k) ==
    /\ k \in 2..Len(reqs[c])
    /\ Fetched(c, k - 1).kind = "page"
    /\ Fetched(c, k - 1).next.scheme = "http"
    /\ reqs[c][k].url.loc = Fetched(c, k - 1).next.loc

\* C16: every tag-listing request, the first and those to a next URL, goes
\* out with the scheme https, whatever scheme the URL names
C16_AlwaysHTTPS ==
    \A c \in Calls : \A k \in 1..Len(reqs[c]) : reqs[c][k].url.scheme = "https"

\* a call has requested, over https, a next URL spelt with http
C16_Witness ==
    \E c \in Calls : \E k \in 2..Len(reqs[c]) :
        /\ FollowedHTTP(c, k)
        /\ reqs[c][k].url = [Page3 EXCEPT !.scheme = "https"]
        /\ Page3.scheme = "http"

(***************************************************************************)
(* C17: the status code of a tag-listing response.                         *)
(***************************************************************************)
\* C17: whether an uncancelled call succeeds depends on the bodies alone (the
\* chain of pages decodes, is well-timed and ends), and a first response with
\* no results and no next ends it with no tags and a nil error, whatever the
\* status codes
C17_StatusIgnored ==
    \A c \in Calls :
        (pc[c] = "done" /\ cancelled[c] = "no") =>
            /\ ret[c].err = "" <=> ChainSucceeds(registry, FirstURL(ref[c]))
            /\ (Fetched(c, 1).kind = "page" /\ Fetched(c, 1).results = <<>>
                    /\ Fetched(c, 1).next = NoURL) =>
                  ret[c] = [tags |-> <<>>, err |-> ""]

\* a call whose only response was a 404 with an empty page has returned no
\* tags and a nil error
C17_Witness ==
    \E c \in Calls :
        /\ pc[c] = "done"
        /\ cancelled[c] = "no"
        /\ Len(reqs[c]) = 1
        /\ Fetched(c, 1) = WithStatus(EmptyPage, 404)
        /\ ret[c] = [tags |-> <<>>, err |-> ""]

\* a call has returned the tags of a page served with status 500
C17_WitnessTags ==
    \E c \in Calls :
        /\ pc[c] = "done"
        /\ cancelled[c] = "no"
        /\ Fetched(c, 1).status = 500
        /\ ret[c].err = ""
        /\ ret[c].tags # <<>>

====
